---- MODULE Spec2Model ----
(***************************************************************************)
(* Model of the janken (rock-paper-scissors) session service of app.py:    *)
(* the Session aggregate, the redis-backed SessionStore (SET NX EX, SETEX, *)
(* GET, and the redis-py Lock with a hold timeout and blocking_timeout 0), *)
(* and the four request handlers start, choice_hand, get, session_result.  *)
(*                                                                         *)
(* choice_hand is not atomic: every redis round trip is one step, and any  *)
(* other request or the passage of time may come between two steps.        *)
(* Time is measured in seconds and advances in steps of TickSeconds; every *)
(* key of the store carries its remaining time to live.                    *)
(***************************************************************************)
EXTENDS Integers, Sequences, FiniteSets, TLC

VARIABLES
    kv,       \* redis keys holding sessions: session id -> [val, ttl]
    lk,       \* redis keys holding locks:    session id -> [token, ttl]
    pc,       \* position of each choice_hand request
    sid,      \* session_id argument of each choice_hand request
    user,     \* user argument of each choice_hand request
    hand,     \* hand argument (text) of each choice_hand request
    session,  \* the Session a choice_hand request restored (its local copy)
    out,      \* the exception a choice_hand request is unwinding with, or "ok"
    held,     \* seconds since the request acquired its lock (up to lock_timeout)
    resp,     \* the response of the request that has just returned
    acked     \* session id -> users whose choice_hand returned the session id

vars == <<kv, lk, pc, sid, user, hand, session, out, held, resp, acked>>

----------------------------------------------------------------------------
(* Bounds of the model *)

\* Clock steps per session lifetime: requests act at instants that are
\* multiples of session_lifetime / TicksPerLifetime seconds apart.
TicksPerLifetime == 2

\* One session id: every uuid4 that start() mints after the first collides.
SessionIds == {"s1"}
\* choice_hand requests that can be in flight together
Requests == {"r1", "r2"}
\* "c" is in no users list
Users == {"a", "b", "c"}
\* users=a,b and users=a,a (two entries, one participant)
UserLists == {<<"a", "b">>, <<"a", "a">>}
\* users lists start() can build from its parameter: also the one-element list
StartLists == UserLists \cup {<<"a">>}
\* " Rock\r", "PAPER" and the unparseable "rocks", as code points; all three
\* hands meet in SpecJudge
HandTexts == { <<32, 82, 111, 99, 107, 13>>,
               <<80, 65, 80, 69, 82>>,
               <<114, 111, 99, 107, 115>> }

----------------------------------------------------------------------------
(* Program constants *)

session_lifetime == 60 * 60
lock_timeout == 60 * 5

TickSeconds == session_lifetime \div TicksPerLifetime

Hands == {"Rock", "Scissors", "Paper"}

----------------------------------------------------------------------------
(* Hand.from_str *)

\* A text is the sequence of the code points of its characters: "Rock" is
\* <<82, 111, 99, 107>>. The tables are those of Unicode 14.0.0.

\* str.lower, character by character: <<lo, hi, step, delta>> says that the
\* code points lo, lo + step, ... up to hi become themselves plus delta.
LowerRules ==
    << <<65, 90, 1, 32>>, <<192, 214, 1, 32>>, <<216, 222, 1, 32>>, <<256, 302, 2, 1>>,
       <<306, 310, 2, 1>>, <<313, 327, 2, 1>>, <<330, 374, 2, 1>>, <<376, 376, 1, -121>>,
       <<377, 381, 2, 1>>, <<385, 385, 1, 210>>, <<386, 388, 2, 1>>, <<390, 390, 1, 206>>,
       <<391, 391, 1, 1>>, <<393, 394, 1, 205>>, <<395, 395, 1, 1>>, <<398, 398, 1, 79>>,
       <<399, 399, 1, 202>>, <<400, 400, 1, 203>>, <<401, 401, 1, 1>>, <<403, 403, 1, 205>>,
       <<404, 404, 1, 207>>, <<406, 406, 1, 211>>, <<407, 407, 1, 209>>, <<408, 408, 1, 1>>,
       <<412, 412, 1, 211>>, <<413, 413, 1, 213>>, <<415, 415, 1, 214>>, <<416, 420, 2, 1>>,
       <<422, 422, 1, 218>>, <<423, 423, 1, 1>>, <<425, 425, 1, 218>>, <<428, 428, 1, 1>>,
       <<430, 430, 1, 218>>, <<431, 431, 1, 1>>, <<433, 434, 1, 217>>, <<435, 437, 2, 1>>,
       <<439, 439, 1, 219>>, <<440, 440, 1, 1>>, <<444, 444, 1, 1>>, <<452, 452, 1, 2>>,
       <<453, 453, 1, 1>>, <<455, 455, 1, 2>>, <<456, 456, 1, 1>>, <<458, 458, 1, 2>>,
       <<459, 475, 2, 1>>, <<478, 494, 2, 1>>, <<497, 497, 1, 2>>, <<498, 500, 2, 1>>,
       <<502, 502, 1, -97>>, <<503, 503, 1, -56>>, <<504, 542, 2, 1>>, <<544, 544, 1, -130>>,
       <<546, 562, 2, 1>>, <<570, 570, 1, 10795>>, <<571, 571, 1, 1>>, <<573, 573, 1, -163>>,
       <<574, 574, 1, 10792>>, <<577, 577, 1, 1>>, <<579, 579, 1, -195>>, <<580, 580, 1, 69>>,
       <<581, 581, 1, 71>>, <<582, 590, 2, 1>>, <<880, 882, 2, 1>>, <<886, 886, 1, 1>>,
       <<895, 895, 1, 116>>, <<902, 902, 1, 38>>, <<904, 906, 1, 37>>, <<908, 908, 1, 64>>,
       <<910, 911, 1, 63>>, <<913, 929, 1, 32>>, <<931, 939, 1, 32>>, <<975, 975, 1, 8>>,
       <<984, 1006, 2, 1>>, <<1012, 1012, 1, -60>>, <<1015, 1015, 1, 1>>, <<1017, 1017, 1, -7>>,
       <<1018, 1018, 1, 1>>, <<1021, 1023, 1, -130>>, <<1024, 1039, 1, 80>>, <<1040, 1071, 1, 32>>,
       <<1120, 1152, 2, 1>>, <<1162, 1214, 2, 1>>, <<1216, 1216, 1, 15>>, <<1217, 1229, 2, 1>>,
       <<1232, 1326, 2, 1>>, <<1329, 1366, 1, 48>>, <<4256, 4293, 1, 7264>>, <<4295, 4295, 1, 7264>>,
       <<4301, 4301, 1, 7264>>, <<5024, 5103, 1, 38864>>, <<5104, 5109, 1, 8>>, <<7312, 7354, 1, -3008>>,
       <<7357, 7359, 1, -3008>>, <<7680, 7828, 2, 1>>, <<7838, 7838, 1, -7615>>, <<7840, 7934, 2, 1>>,
       <<7944, 7951, 1, -8>>, <<7960, 7965, 1, -8>>, <<7976, 7983, 1, -8>>, <<7992, 7999, 1, -8>>,
       <<8008, 8013, 1, -8>>, <<8025, 8031, 2, -8>>, <<8040, 8047, 1, -8>>, <<8072, 8079, 1, -8>>,
       <<8088, 8095, 1, -8>>, <<8104, 8111, 1, -8>>, <<8120, 8121, 1, -8>>, <<8122, 8123, 1, -74>>,
       <<8124, 8124, 1, -9>>, <<8136, 8139, 1, -86>>, <<8140, 8140, 1, -9>>, <<8152, 8153, 1, -8>>,
       <<8154, 8155, 1, -100>>, <<8168, 8169, 1, -8>>, <<8170, 8171, 1, -112>>, <<8172, 8172, 1, -7>>,
       <<8184, 8185, 1, -128>>, <<8186, 8187, 1, -126>>, <<8188, 8188, 1, -9>>, <<8486, 8486, 1, -7517>>,
       <<8490, 8490, 1, -8383>>, <<8491, 8491, 1, -8262>>, <<8498, 8498, 1, 28>>, <<8544, 8559, 1, 16>>,
       <<8579, 8579, 1, 1>>, <<9398, 9423, 1, 26>>, <<11264, 11311, 1, 48>>, <<11360, 11360, 1, 1>>,
       <<11362, 11362, 1, -10743>>, <<11363, 11363, 1, -3814>>, <<11364, 11364, 1, -10727>>, <<11367, 11371, 2, 1>>,
       <<11373, 11373, 1, -10780>>, <<11374, 11374, 1, -10749>>, <<11375, 11375, 1, -10783>>, <<11376, 11376, 1, -10782>>,
       <<11378, 11378, 1, 1>>, <<11381, 11381, 1, 1>>, <<11390, 11391, 1, -10815>>, <<11392, 11490, 2, 1>>,
       <<11499, 11501, 2, 1>>, <<11506, 11506, 1, 1>>, <<42560, 42604, 2, 1>>, <<42624, 42650, 2, 1>>,
       <<42786, 42798, 2, 1>>, <<42802, 42862, 2, 1>>, <<42873, 42875, 2, 1>>, <<42877, 42877, 1, -35332>>,
       <<42878, 42886, 2, 1>>, <<42891, 42891, 1, 1>>, <<42893, 42893, 1, -42280>>, <<42896, 42898, 2, 1>>,
       <<42902, 42920, 2, 1>>, <<42922, 42922, 1, -42308>>, <<42923, 42923, 1, -42319>>, <<42924, 42924, 1, -42315>>,
       <<42925, 42925, 1, -42305>>, <<42926, 42926, 1, -42308>>, <<42928, 42928, 1, -42258>>, <<42929, 42929, 1, -42282>>,
       <<42930, 42930, 1, -42261>>, <<42931, 42931, 1, 928>>, <<42932, 42946, 2, 1>>, <<42948, 42948, 1, -48>>,
       <<42949, 42949, 1, -42307>>, <<42950, 42950, 1, -35384>>, <<42951, 42953, 2, 1>>, <<42960, 42960, 1, 1>>,
       <<42966, 42968, 2, 1>>, <<42997, 42997, 1, 1>>, <<65313, 65338, 1, 32>>, <<66560, 66599, 1, 40>>,
       <<66736, 66771, 1, 40>>, <<66928, 66938, 1, 39>>, <<66940, 66954, 1, 39>>, <<66956, 66962, 1, 39>>,
       <<66964, 66965, 1, 39>>, <<68736, 68786, 1, 64>>, <<71840, 71871, 1, 32>>, <<93760, 93791, 1, 32>>,
       <<125184, 125217, 1, 34>> >>

\* str.lower of the one-character text <<c>>. LATIN CAPITAL LETTER I WITH DOT
\* ABOVE becomes two characters; a character of no rule stays.
LowerChar(c) ==
    IF c < 128 THEN (IF c \in 65..90 THEN <<c + 32>> ELSE <<c>>)
    ELSE IF c = 304 THEN <<105, 775>>
    ELSE IF \E i \in DOMAIN LowerRules :
               /\ LowerRules[i][1] <= c /\ c <= LowerRules[i][2]
               /\ (c - LowerRules[i][1]) % LowerRules[i][3] = 0
    THEN LET i == CHOOSE i \in DOMAIN LowerRules :
                     /\ LowerRules[i][1] <= c /\ c <= LowerRules[i][2]
                     /\ (c - LowerRules[i][1]) % LowerRules[i][3] = 0
         IN  <<c + LowerRules[i][4]>>
    ELSE <<c>>

InRanges(c, ranges) ==
    \E i \in DOMAIN ranges : ranges[i][1] <= c /\ c <= ranges[i][2]

\* The cased characters that are not case-ignorable, as ranges <<first, last>>.
CasedRanges ==
    << <<65, 90>>, <<97, 122>>, <<170, 170>>, <<181, 181>>, <<186, 186>>,
       <<192, 214>>, <<216, 246>>, <<248, 442>>, <<444, 447>>, <<452, 659>>,
       <<661, 687>>, <<880, 883>>, <<886, 887>>, <<891, 893>>, <<895, 895>>,
       <<902, 902>>, <<904, 906>>, <<908, 908>>, <<910, 929>>, <<931, 1013>>,
       <<1015, 1153>>, <<1162, 1327>>, <<1329, 1366>>, <<1376, 1416>>, <<4256, 4293>>,
       <<4295, 4295>>, <<4301, 4301>>, <<4304, 4346>>, <<4349, 4351>>, <<5024, 5109>>,
       <<5112, 5117>>, <<7296, 7304>>, <<7312, 7354>>, <<7357, 7359>>, <<7424, 7467>>,
       <<7531, 7543>>, <<7545, 7578>>, <<7680, 7957>>, <<7960, 7965>>, <<7968, 8005>>,
       <<8008, 8013>>, <<8016, 8023>>, <<8025, 8025>>, <<8027, 8027>>, <<8029, 8029>>,
       <<8031, 8061>>, <<8064, 8116>>, <<8118, 8124>>, <<8126, 8126>>, <<8130, 8132>>,
       <<8134, 8140>>, <<8144, 8147>>, <<8150, 8155>>, <<8160, 8172>>, <<8178, 8180>>,
       <<8182, 8188>>, <<8450, 8450>>, <<8455, 8455>>, <<8458, 8467>>, <<8469, 8469>>,
       <<8473, 8477>>, <<8484, 8484>>, <<8486, 8486>>, <<8488, 8488>>, <<8490, 8493>>,
       <<8495, 8500>>, <<8505, 8505>>, <<8508, 8511>>, <<8517, 8521>>, <<8526, 8526>>,
       <<8544, 8575>>, <<8579, 8580>>, <<9398, 9449>>, <<11264, 11387>>, <<11390, 11492>>,
       <<11499, 11502>>, <<11506, 11507>>, <<11520, 11557>>, <<11559, 11559>>, <<11565, 11565>>,
       <<42560, 42605>>, <<42624, 42651>>, <<42786, 42863>>, <<42865, 42887>>, <<42891, 42894>>,
       <<42896, 42954>>, <<42960, 42961>>, <<42963, 42963>>, <<42965, 42969>>, <<42997, 42998>>,
       <<43002, 43002>>, <<43824, 43866>>, <<43872, 43880>>, <<43888, 43967>>, <<64256, 64262>>,
       <<64275, 64279>>, <<65313, 65338>>, <<65345, 65370>>, <<66560, 66639>>, <<66736, 66771>>,
       <<66776, 66811>>, <<66928, 66938>>, <<66940, 66954>>, <<66956, 66962>>, <<66964, 66965>>,
       <<66967, 66977>>, <<66979, 66993>>, <<66995, 67001>>, <<67003, 67004>>, <<68736, 68786>>,
       <<68800, 68850>>, <<71840, 71903>>, <<93760, 93823>>, <<119808, 119892>>, <<119894, 119964>>,
       <<119966, 119967>>, <<119970, 119970>>, <<119973, 119974>>, <<119977, 119980>>, <<119982, 119993>>,
       <<119995, 119995>>, <<119997, 120003>>, <<120005, 120069>>, <<120071, 120074>>, <<120077, 120084>>,
       <<120086, 120092>>, <<120094, 120121>>, <<120123, 120126>>, <<120128, 120132>>, <<120134, 120134>>,
       <<120138, 120144>>, <<120146, 120485>>, <<120488, 120512>>, <<120514, 120538>>, <<120540, 120570>>,
       <<120572, 120596>>, <<120598, 120628>>, <<120630, 120654>>, <<120656, 120686>>, <<120688, 120712>>,
       <<120714, 120744>>, <<120746, 120770>>, <<120772, 120779>>, <<122624, 122633>>, <<122635, 122654>>,
       <<125184, 125251>>, <<127280, 127305>>, <<127312, 127337>>, <<127344, 127369>> >>

\* The case-ignorable characters, as ranges <<first, last>>.
CaseIgnorableRanges ==
    << <<39, 39>>, <<46, 46>>, <<58, 58>>, <<94, 94>>, <<96, 96>>,
       <<168, 168>>, <<173, 173>>, <<175, 175>>, <<180, 180>>, <<183, 184>>,
       <<688, 879>>, <<884, 885>>, <<890, 890>>, <<900, 901>>, <<903, 903>>,
       <<1155, 1161>>, <<1369, 1369>>, <<1375, 1375>>, <<1425, 1469>>, <<1471, 1471>>,
       <<1473, 1474>>, <<1476, 1477>>, <<1479, 1479>>, <<1524, 1524>>, <<1536, 1541>>,
       <<1552, 1562>>, <<1564, 1564>>, <<1600, 1600>>, <<1611, 1631>>, <<1648, 1648>>,
       <<1750, 1757>>, <<1759, 1768>>, <<1770, 1773>>, <<1807, 1807>>, <<1809, 1809>>,
       <<1840, 1866>>, <<1958, 1968>>, <<2027, 2037>>, <<2042, 2042>>, <<2045, 2045>>,
       <<2070, 2093>>, <<2137, 2139>>, <<2184, 2184>>, <<2192, 2193>>, <<2200, 2207>>,
       <<2249, 2306>>, <<2362, 2362>>, <<2364, 2364>>, <<2369, 2376>>, <<2381, 2381>>,
       <<2385, 2391>>, <<2402, 2403>>, <<2417, 2417>>, <<2433, 2433>>, <<2492, 2492>>,
       <<2497, 2500>>, <<2509, 2509>>, <<2530, 2531>>, <<2558, 2558>>, <<2561, 2562>>,
       <<2620, 2620>>, <<2625, 2626>>, <<2631, 2632>>, <<2635, 2637>>, <<2641, 2641>>,
       <<2672, 2673>>, <<2677, 2677>>, <<2689, 2690>>, <<2748, 2748>>, <<2753, 2757>>,
       <<2759, 2760>>, <<2765, 2765>>, <<2786, 2787>>, <<2810, 2815>>, <<2817, 2817>>,
       <<2876, 2876>>, <<2879, 2879>>, <<2881, 2884>>, <<2893, 2893>>, <<2901, 2902>>,
       <<2914, 2915>>, <<2946, 2946>>, <<3008, 3008>>, <<3021, 3021>>, <<3072, 3072>>,
       <<3076, 3076>>, <<3132, 3132>>, <<3134, 3136>>, <<3142, 3144>>, <<3146, 3149>>,
       <<3157, 3158>>, <<3170, 3171>>, <<3201, 3201>>, <<3260, 3260>>, <<3263, 3263>>,
       <<3270, 3270>>, <<3276, 3277>>, <<3298, 3299>>, <<3328, 3329>>, <<3387, 3388>>,
       <<3393, 3396>>, <<3405, 3405>>, <<3426, 3427>>, <<3457, 3457>>, <<3530, 3530>>,
       <<3538, 3540>>, <<3542, 3542>>, <<3633, 3633>>, <<3636, 3642>>, <<3654, 3662>>,
       <<3761, 3761>>, <<3764, 3772>>, <<3782, 3782>>, <<3784, 3789>>, <<3864, 3865>>,
       <<3893, 3893>>, <<3895, 3895>>, <<3897, 3897>>, <<3953, 3966>>, <<3968, 3972>>,
       <<3974, 3975>>, <<3981, 3991>>, <<3993, 4028>>, <<4038, 4038>>, <<4141, 4144>>,
       <<4146, 4151>>, <<4153, 4154>>, <<4157, 4158>>, <<4184, 4185>>, <<4190, 4192>>,
       <<4209, 4212>>, <<4226, 4226>>, <<4229, 4230>>, <<4237, 4237>>, <<4253, 4253>>,
       <<4348, 4348>>, <<4957, 4959>>, <<5906, 5908>>, <<5938, 5939>>, <<5970, 5971>>,
       <<6002, 6003>>, <<6068, 6069>>, <<6071, 6077>>, <<6086, 6086>>, <<6089, 6099>>,
       <<6103, 6103>>, <<6109, 6109>>, <<6155, 6159>>, <<6211, 6211>>, <<6277, 6278>>,
       <<6313, 6313>>, <<6432, 6434>>, <<6439, 6440>>, <<6450, 6450>>, <<6457, 6459>>,
       <<6679, 6680>>, <<6683, 6683>>, <<6742, 6742>>, <<6744, 6750>>, <<6752, 6752>>,
       <<6754, 6754>>, <<6757, 6764>>, <<6771, 6780>>, <<6783, 6783>>, <<6823, 6823>>,
       <<6832, 6862>>, <<6912, 6915>>, <<6964, 6964>>, <<6966, 6970>>, <<6972, 6972>>,
       <<6978, 6978>>, <<7019, 7027>>, <<7040, 7041>>, <<7074, 7077>>, <<7080, 7081>>,
       <<7083, 7085>>, <<7142, 7142>>, <<7144, 7145>>, <<7149, 7149>>, <<7151, 7153>>,
       <<7212, 7219>>, <<7222, 7223>>, <<7288, 7293>>, <<7376, 7378>>, <<7380, 7392>>,
       <<7394, 7400>>, <<7405, 7405>>, <<7412, 7412>>, <<7416, 7417>>, <<7468, 7530>>,
       <<7544, 7544>>, <<7579, 7679>>, <<8125, 8125>>, <<8127, 8129>>, <<8141, 8143>>,
       <<8157, 8159>>, <<8173, 8175>>, <<8189, 8190>>, <<8203, 8207>>, <<8216, 8217>>,
       <<8228, 8228>>, <<8231, 8231>>, <<8234, 8238>>, <<8288, 8292>>, <<8294, 8303>>,
       <<8305, 8305>>, <<8319, 8319>>, <<8336, 8348>>, <<8400, 8432>>, <<11388, 11389>>,
       <<11503, 11505>>, <<11631, 11631>>, <<11647, 11647>>, <<11744, 11775>>, <<11823, 11823>>,
       <<12293, 12293>>, <<12330, 12333>>, <<12337, 12341>>, <<12347, 12347>>, <<12441, 12446>>,
       <<12540, 12542>>, <<40981, 40981>>, <<42232, 42237>>, <<42508, 42508>>, <<42607, 42610>>,
       <<42612, 42621>>, <<42623, 42623>>, <<42652, 42655>>, <<42736, 42737>>, <<42752, 42785>>,
       <<42864, 42864>>, <<42888, 42890>>, <<42994, 42996>>, <<43000, 43001>>, <<43010, 43010>>,
       <<43014, 43014>>, <<43019, 43019>>, <<43045, 43046>>, <<43052, 43052>>, <<43204, 43205>>,
       <<43232, 43249>>, <<43263, 43263>>, <<43302, 43309>>, <<43335, 43345>>, <<43392, 43394>>,
       <<43443, 43443>>, <<43446, 43449>>, <<43452, 43453>>, <<43471, 43471>>, <<43493, 43494>>,
       <<43561, 43566>>, <<43569, 43570>>, <<43573, 43574>>, <<43587, 43587>>, <<43596, 43596>>,
       <<43632, 43632>>, <<43644, 43644>>, <<43696, 43696>>, <<43698, 43700>>, <<43703, 43704>>,
       <<43710, 43711>>, <<43713, 43713>>, <<43741, 43741>>, <<43756, 43757>>, <<43763, 43764>>,
       <<43766, 43766>>, <<43867, 43871>>, <<43881, 43883>>, <<44005, 44005>>, <<44008, 44008>>,
       <<44013, 44013>>, <<64286, 64286>>, <<64434, 64450>>, <<65024, 65039>>, <<65043, 65043>>,
       <<65056, 65071>>, <<65106, 65106>>, <<65109, 65109>>, <<65279, 65279>>, <<65287, 65287>>,
       <<65294, 65294>>, <<65306, 65306>>, <<65342, 65342>>, <<65344, 65344>>, <<65392, 65392>>,
       <<65438, 65439>>, <<65507, 65507>>, <<65529, 65531>>, <<66045, 66045>>, <<66272, 66272>>,
       <<66422, 66426>>, <<67456, 67461>>, <<67463, 67504>>, <<67506, 67514>>, <<68097, 68099>>,
       <<68101, 68102>>, <<68108, 68111>>, <<68152, 68154>>, <<68159, 68159>>, <<68325, 68326>>,
       <<68900, 68903>>, <<69291, 69292>>, <<69446, 69456>>, <<69506, 69509>>, <<69633, 69633>>,
       <<69688, 69702>>, <<69744, 69744>>, <<69747, 69748>>, <<69759, 69761>>, <<69811, 69814>>,
       <<69817, 69818>>, <<69821, 69821>>, <<69826, 69826>>, <<69837, 69837>>, <<69888, 69890>>,
       <<69927, 69931>>, <<69933, 69940>>, <<70003, 70003>>, <<70016, 70017>>, <<70070, 70078>>,
       <<70089, 70092>>, <<70095, 70095>>, <<70191, 70193>>, <<70196, 70196>>, <<70198, 70199>>,
       <<70206, 70206>>, <<70367, 70367>>, <<70371, 70378>>, <<70400, 70401>>, <<70459, 70460>>,
       <<70464, 70464>>, <<70502, 70508>>, <<70512, 70516>>, <<70712, 70719>>, <<70722, 70724>>,
       <<70726, 70726>>, <<70750, 70750>>, <<70835, 70840>>, <<70842, 70842>>, <<70847, 70848>>,
       <<70850, 70851>>, <<71090, 71093>>, <<71100, 71101>>, <<71103, 71104>>, <<71132, 71133>>,
       <<71219, 71226>>, <<71229, 71229>>, <<71231, 71232>>, <<71339, 71339>>, <<71341, 71341>>,
       <<71344, 71349>>, <<71351, 71351>>, <<71453, 71455>>, <<71458, 71461>>, <<71463, 71467>>,
       <<71727, 71735>>, <<71737, 71738>>, <<71995, 71996>>, <<71998, 71998>>, <<72003, 72003>>,
       <<72148, 72151>>, <<72154, 72155>>, <<72160, 72160>>, <<72193, 72202>>, <<72243, 72248>>,
       <<72251, 72254>>, <<72263, 72263>>, <<72273, 72278>>, <<72281, 72283>>, <<72330, 72342>>,
       <<72344, 72345>>, <<72752, 72758>>, <<72760, 72765>>, <<72767, 72767>>, <<72850, 72871>>,
       <<72874, 72880>>, <<72882, 72883>>, <<72885, 72886>>, <<73009, 73014>>, <<73018, 73018>>,
       <<73020, 73021>>, <<73023, 73029>>, <<73031, 73031>>, <<73104, 73105>>, <<73109, 73109>>,
       <<73111, 73111>>, <<73459, 73460>>, <<78896, 78904>>, <<92912, 92916>>, <<92976, 92982>>,
       <<92992, 92995>>, <<94031, 94031>>, <<94095, 94111>>, <<94176, 94177>>, <<94179, 94180>>,
       <<110576, 110579>>, <<110581, 110587>>, <<110589, 110590>>, <<113821, 113822>>, <<113824, 113827>>,
       <<118528, 118573>>, <<118576, 118598>>, <<119143, 119145>>, <<119155, 119170>>, <<119173, 119179>>,
       <<119210, 119213>>, <<119362, 119364>>, <<121344, 121398>>, <<121403, 121452>>, <<121461, 121461>>,
       <<121476, 121476>>, <<121499, 121503>>, <<121505, 121519>>, <<122880, 122886>>, <<122888, 122904>>,
       <<122907, 122913>>, <<122915, 122916>>, <<122918, 122922>>, <<123184, 123197>>, <<123566, 123566>>,
       <<123628, 123631>>, <<125136, 125142>>, <<125252, 125259>>, <<127995, 127999>>, <<917505, 917505>>,
       <<917536, 917631>>, <<917760, 917999>> >>

\* GREEK CAPITAL LETTER SIGMA (931) at place i ends a word: the nearest
\* character before it that is not case-ignorable is cased, and the nearest
\* such character after it, if there is one, is not cased.
FinalSigma(s, i) ==
    LET before == {j \in 1..(i - 1) : ~InRanges(s[j], CaseIgnorableRanges)}
        after == {j \in (i + 1)..Len(s) : ~InRanges(s[j], CaseIgnorableRanges)}
    IN  /\ before /= {}
        /\ InRanges(s[CHOOSE j \in before : \A k \in before : k <= j], CasedRanges)
        /\ \/ after = {}
           \/ ~InRanges(s[CHOOSE j \in after : \A k \in after : j <= k], CasedRanges)

RECURSIVE LowerFrom(_, _)
LowerFrom(s, i) ==
    IF i > Len(s) THEN <<>>
    ELSE (IF s[i] = 931 /\ FinalSigma(s, i) THEN <<962>> ELSE LowerChar(s[i]))
            \o LowerFrom(s, i + 1)

\* str.lower: a capital sigma that ends a word becomes the final sigma (962).
lower(s) == LowerFrom(s, 1)

\* The code points str.strip removes: those str.isspace holds of.
Whitespace ==
    (9..13) \cup (28..32) \cup {133, 160, 5760} \cup (8192..8202)
        \cup {8232, 8233, 8239, 8287, 12288}

IsSpace(c) == c \in Whitespace

RECURSIVE lstrip(_)
lstrip(s) == IF s /= <<>> /\ IsSpace(Head(s)) THEN lstrip(Tail(s)) ELSE s

RECURSIVE rstrip(_)
rstrip(s) == IF s /= <<>> /\ IsSpace(s[Len(s)])
             THEN rstrip(SubSeq(s, 1, Len(s) - 1)) ELSE s

strip(s) == rstrip(lstrip(s))

\* The Hand named by the text, or "UndefinedEnumError" when from_str raises.
from_str(text) ==
    LET h == strip(lower(text)) IN
    IF h = <<114, 111, 99, 107>> THEN "Rock"                          \* "rock"
    ELSE IF h = <<115, 99, 105, 115, 115, 111, 114, 115>> THEN "Scissors" \* "scissors"
    ELSE IF h = <<112, 97, 112, 101, 114>> THEN "Paper"                \* "paper"
    ELSE "UndefinedEnumError"

----------------------------------------------------------------------------
(* Session *)

\* Session(users) with the uuid4 it minted; the choices dict keeps insertion
\* order and is a sequence of Choice(user, hand).
NewSession(id, users) == [session_id |-> id, users |-> users, choices |-> <<>>]

NoSession == [session_id |-> "", users |-> <<>>, choices |-> <<>>]

SeqRange(s) == {s[i] : i \in DOMAIN s}

ChoiceKeys(s) == {s.choices[i].user : i \in DOMAIN s.choices}

\* choose without the membership test: any user who has not chosen is recorded.
chooseAnyUser(s, u, h) ==
    IF u \notin ChoiceKeys(s)
    THEN [session |-> [s EXCEPT !.choices = Append(@, [user |-> u, hand |-> h])],
          err |-> "ok"]
    ELSE [session |-> s, err |-> "AlreadyChosenError"]

\* Session.choose: the session after the call and the exception raised, if any.
choose(s, u, h) ==
    IF u \in SeqRange(s.users) /\ u \notin ChoiceKeys(s)
    THEN [session |-> [s EXCEPT !.choices = Append(@, [user |-> u, hand |-> h])],
          err |-> "ok"]
    ELSE IF u \in ChoiceKeys(s)
    THEN [session |-> s, err |-> "AlreadyChosenError"]
    ELSE [session |-> s, err |-> "NotInSessionError"]

RECURSIVE UsersWith(_, _)
UsersWith(choices, h) ==
    IF choices = <<>> THEN <<>>
    ELSE IF Head(choices).hand = h
         THEN <<Head(choices).user>> \o UsersWith(Tail(choices), h)
         ELSE UsersWith(Tail(choices), h)

\* judge with the last rule naming the losers of paper against rock.
judgeRocksBeatPaper(s) ==
    LET rocks == UsersWith(s.choices, "Rock")
        scissors == UsersWith(s.choices, "Scissors")
        papers == UsersWith(s.choices, "Paper")
    IN  IF rocks /= <<>> /\ scissors /= <<>> /\ papers /= <<>>
        THEN [status |-> "Draw", winners |-> <<>>]
        ELSE IF rocks /= <<>> /\ scissors /= <<>>
        THEN [status |-> "RockWin", winners |-> rocks]
        ELSE IF scissors /= <<>> /\ papers /= <<>>
        THEN [status |-> "ScissorsWin", winners |-> scissors]
        ELSE IF papers /= <<>> /\ rocks /= <<>>
        THEN [status |-> "PaperWin", winners |-> rocks]
        ELSE [status |-> "Draw", winners |-> <<>>]

\* Session.judge; a Result without winners (None) has winners <<>>.
judge(s) ==
    LET rocks == UsersWith(s.choices, "Rock")
        scissors == UsersWith(s.choices, "Scissors")
        papers == UsersWith(s.choices, "Paper")
    IN  IF rocks /= <<>> /\ scissors /= <<>> /\ papers /= <<>>
        THEN [status |-> "Draw", winners |-> <<>>]
        ELSE IF rocks /= <<>> /\ scissors /= <<>>
        THEN [status |-> "RockWin", winners |-> rocks]
        ELSE IF scissors /= <<>> /\ papers /= <<>>
        THEN [status |-> "ScissorsWin", winners |-> scissors]
        ELSE IF papers /= <<>> /\ rocks /= <<>>
        THEN [status |-> "PaperWin", winners |-> papers]
        ELSE [status |-> "Draw", winners |-> <<>>]

\* result that judges as soon as the choosers are among the participants.
resultWhenSubset(s) ==
    IF ChoiceKeys(s) \subseteq SeqRange(s.users)
    THEN judge(s)
    ELSE [status |-> "SessionNotClosedError", winners |-> <<>>]

\* Session.result: the Result, or status "SessionNotClosedError" when it raises.
result(s) ==
    IF SeqRange(s.users) = ChoiceKeys(s)
    THEN judge(s)
    ELSE [status |-> "SessionNotClosedError", winners |-> <<>>]

----------------------------------------------------------------------------
(* SessionStore: the redis commands it issues *)

\* SET without NX: the value is written whether or not the key exists.
createOverwrites(keys, s) ==
    [k \in DOMAIN keys \cup {s.session_id} |->
        IF k = s.session_id THEN [val |-> s, ttl |-> session_lifetime]
        ELSE keys[k]]

\* SET name value EX session_lifetime NX
create(keys, s) ==
    IF s.session_id \in DOMAIN keys THEN keys
    ELSE [k \in DOMAIN keys \cup {s.session_id} |->
            IF k = s.session_id THEN [val |-> s, ttl |-> session_lifetime]
            ELSE keys[k]]

\* A store that keeps the time to live of an existing key (SET ... KEEPTTL).
storeKeepTtl(keys, s) ==
    [k \in DOMAIN keys \cup {s.session_id} |->
        IF k = s.session_id
        THEN [val |-> s,
              ttl |-> IF k \in DOMAIN keys THEN keys[k].ttl ELSE session_lifetime]
        ELSE keys[k]]

\* SETEX name session_lifetime value: always writes, always answers True
store(keys, s) ==
    [k \in DOMAIN keys \cup {s.session_id} |->
        IF k = s.session_id THEN [val |-> s, ttl |-> session_lifetime]
        ELSE keys[k]]

\* The redis key of the lock of a session id. Session records (keys) and lock
\* tokens (locks) are kept in two maps here and are one keyspace in redis:
\* a record is set under a minted uuid only, a token under a lock name only.
LockName(id) == "SESSION_STORE_LOCK:" \o id

\* The session_id of a request is free text of the URL: a minted id, or the
\* name of the lock key of a minted id.
LockNames == {LockName(id) : id \in SessionIds}

RequestIds == SessionIds \cup LockNames

\* A choice sent for a lock name: no session has that id, whoever and whatever
\* is sent; one request, one user and the unparseable hand stand for them.
LockNameRequests == {"r2"}

LockNameUsers == {"a"}

LockNameHands == { <<114, 111, 99, 107, 115>> }

\* SessionStore.restore: GET session_id; no value raises SessionNotFoundError,
\* a pickled session is loaded, a lock token does not unpickle.
restore(keys, locks, id) ==
    IF id \notin DOMAIN keys \cup DOMAIN locks
    THEN [err |-> "SessionNotFoundError", session |-> NoSession]
    ELSE IF id \in DOMAIN keys
    THEN [err |-> "ok", session |-> keys[id].val]
    ELSE [err |-> "UnpicklingError", session |-> NoSession]

\* A lock set without NX: acquisition never sees the lock as taken.
LockAlwaysFree(locks, id) == TRUE

\* Lock.acquire with blocking_timeout 0: SET lockname token NX PX timeout
LockFree(locks, id) == LockName(id) \notin DOMAIN locks

acquire(locks, id, token) ==
    [k \in DOMAIN locks \cup {LockName(id)} |->
        IF k = LockName(id) THEN [token |-> token, ttl |-> lock_timeout]
        ELSE locks[k]]

\* Lock.release: deletes the key only if it still holds this token
Owns(locks, id, token) ==
    LockName(id) \in DOMAIN locks /\ locks[LockName(id)].token = token

release(locks, id) == [k \in DOMAIN locks \ {LockName(id)} |-> locks[k]]

\* The keys left, with their remaining time, after d seconds.
Age(keys, d) ==
    [k \in {x \in DOMAIN keys : keys[x].ttl > d} |->
        [keys[k] EXCEPT !.ttl = @ - d]]

----------------------------------------------------------------------------
(* Responses *)

NoResp == [op |-> "none", sid |-> "", user |-> "", out |-> "", winners |-> <<>>]

Resp(op, id, u, o, w) ==
    [op |-> op, sid |-> id, user |-> u, out |-> o, winners |-> w]

----------------------------------------------------------------------------
Init ==
    /\ kv = <<>>
    /\ lk = <<>>
    /\ pc = [r \in Requests |-> "idle"]
    /\ sid = [r \in Requests |-> ""]
    /\ user = [r \in Requests |-> ""]
    /\ hand = [r \in Requests |-> <<>>]
    /\ session = [r \in Requests |-> NoSession]
    /\ out = [r \in Requests |-> ""]
    /\ held = [r \in Requests |-> 0]
    /\ resp = NoResp
    /\ acked = [s \in SessionIds |-> {}]

Idle(r) ==
    /\ pc' = [pc EXCEPT ![r] = "idle"]
    /\ sid' = [sid EXCEPT ![r] = ""]
    /\ user' = [user EXCEPT ![r] = ""]
    /\ hand' = [hand EXCEPT ![r] = <<>>]
    /\ session' = [session EXCEPT ![r] = NoSession]
    /\ out' = [out EXCEPT ![r] = ""]
    /\ held' = [held EXCEPT ![r] = 0]

\* start() testing len(users) < 1: a single user is let through.
StartOneUser(users, id) ==
    /\ IF Len(users) < 1
       THEN /\ kv' = kv
            /\ resp' = Resp("start", "", "", "needs two or more users", <<>>)
       ELSE /\ kv' = create(kv, NewSession(id, users))
            /\ resp' = Resp("start", id, "", "session start", <<>>)
    /\ UNCHANGED <<lk, pc, sid, user, hand, session, out, held, acked>>

\* start(): the users list is split from the request parameter; the session
\* id is the uuid4 Session.__init__ mints, which nothing checks for freshness.
Start(users, id) ==
    /\ IF Len(users) < 2
       THEN /\ kv' = kv
            /\ resp' = Resp("start", "", "", "needs two or more users", <<>>)
       ELSE /\ kv' = create(kv, NewSession(id, users))
            /\ resp' = Resp("start", id, "", "session start", <<>>)
    /\ UNCHANGED <<lk, pc, sid, user, hand, session, out, held, acked>>

\* choice_hand, entering the with block: Lock.__enter__ acquires or raises
\* LockError at once; no handler is registered for LockError.
ChoiceLock(r, id, u, h) ==
    /\ pc[r] = "idle"
    /\ IF LockFree(lk, id)
       THEN /\ lk' = acquire(lk, id, r)
            /\ pc' = [pc EXCEPT ![r] = "restore"]
            /\ sid' = [sid EXCEPT ![r] = id]
            /\ user' = [user EXCEPT ![r] = u]
            /\ hand' = [hand EXCEPT ![r] = h]
            /\ resp' = NoResp
            /\ UNCHANGED <<session, out, held>>
       ELSE /\ resp' = Resp("choice", id, u, "LockError", <<>>)
            /\ UNCHANGED <<lk, pc, sid, user, hand, session, out, held>>
    /\ UNCHANGED <<kv, acked>>

\* choice_hand refreshing the record's expiry when choose raises.
ChoiceRestoreChooseTouch(r) ==
    /\ pc[r] = "restore"
    /\ LET got == restore(kv, lk, sid[r]) IN
       IF got.err /= "ok"
       THEN /\ out' = [out EXCEPT ![r] = got.err]
            /\ pc' = [pc EXCEPT ![r] = "release"]
            /\ UNCHANGED <<session, kv>>
       ELSE LET h == from_str(hand[r]) IN
            IF h \notin Hands
            THEN /\ out' = [out EXCEPT ![r] = "UndefinedEnumError"]
                 /\ pc' = [pc EXCEPT ![r] = "release"]
                 /\ UNCHANGED <<session, kv>>
            ELSE LET c == choose(got.session, user[r], h) IN
                 IF c.err = "ok"
                 THEN /\ session' = [session EXCEPT ![r] = c.session]
                      /\ pc' = [pc EXCEPT ![r] = "store"]
                      /\ UNCHANGED <<out, kv>>
                 ELSE /\ out' = [out EXCEPT ![r] = c.err]
                      /\ pc' = [pc EXCEPT ![r] = "release"]
                      /\ kv' = store(kv, c.session)
                      /\ UNCHANGED session
    /\ hand' = [hand EXCEPT ![r] = <<>>]
    /\ resp' = NoResp
    /\ UNCHANGED <<lk, sid, user, held, acked>>

\* session_store.restore(session_id); session.choose(user, Hand.from_str(hand))
ChoiceRestoreChoose(r) ==
    /\ pc[r] = "restore"
    /\ LET got == restore(kv, lk, sid[r]) IN
       IF got.err /= "ok"
       THEN /\ out' = [out EXCEPT ![r] = got.err]
            /\ pc' = [pc EXCEPT ![r] = "release"]
            /\ UNCHANGED session
       ELSE LET h == from_str(hand[r]) IN
            IF h \notin Hands
            THEN /\ out' = [out EXCEPT ![r] = "UndefinedEnumError"]
                 /\ pc' = [pc EXCEPT ![r] = "release"]
                 /\ UNCHANGED session
            ELSE LET c == choose(got.session, user[r], h) IN
                 IF c.err = "ok"
                 THEN /\ session' = [session EXCEPT ![r] = c.session]
                      /\ pc' = [pc EXCEPT ![r] = "store"]
                      /\ UNCHANGED out
                 ELSE /\ out' = [out EXCEPT ![r] = c.err]
                      /\ pc' = [pc EXCEPT ![r] = "release"]
                      /\ UNCHANGED session
    /\ hand' = [hand EXCEPT ![r] = <<>>]   \* the text is not read again
    /\ resp' = NoResp
    /\ UNCHANGED <<kv, lk, sid, user, held, acked>>

\* session_store.store(session)
ChoiceStore(r) ==
    /\ pc[r] = "store"
    /\ kv' = store(kv, session[r])
    /\ out' = [out EXCEPT ![r] = "ok"]
    /\ pc' = [pc EXCEPT ![r] = "release"]
    /\ resp' = NoResp
    /\ UNCHANGED <<lk, sid, user, hand, session, held, acked>>

\* choice_hand releasing the lock on the success path only: an exception
\* leaves the block without a release.
ChoiceReleaseOnSuccess(r) ==
    /\ pc[r] = "release"
    /\ IF Owns(lk, sid[r], r) /\ out[r] = "ok"
       THEN /\ lk' = release(lk, sid[r])
            /\ resp' = Resp("choice", sid[r], user[r], out[r], <<>>)
            /\ acked' = IF sid[r] \in DOMAIN kv
                        THEN [acked EXCEPT ![sid[r]] = @ \cup {user[r]}]
                        ELSE acked
       ELSE /\ lk' = lk
            /\ resp' = Resp("choice", sid[r], user[r],
                            IF out[r] = "ok" THEN "LockNotOwnedError" ELSE out[r], <<>>)
            /\ acked' = acked
    /\ Idle(r)
    /\ UNCHANGED kv

\* Leaving the with block: Lock.__exit__ releases; a lock that timed out is
\* no longer owned and release raises LockNotOwnedError in place of the result.
ChoiceRelease(r) ==
    /\ pc[r] = "release"
    /\ IF Owns(lk, sid[r], r)
       THEN /\ lk' = release(lk, sid[r])
            /\ resp' = Resp("choice", sid[r], user[r], out[r], <<>>)
            /\ acked' = IF out[r] = "ok" /\ sid[r] \in DOMAIN kv
                        THEN [acked EXCEPT ![sid[r]] = @ \cup {user[r]}]
                        ELSE acked
       ELSE /\ lk' = lk
            /\ resp' = Resp("choice", sid[r], user[r], "LockNotOwnedError", <<>>)
            /\ acked' = acked
    /\ Idle(r)
    /\ UNCHANGED kv

\* get() taking the session's lock before it restores.
GetUnderLock(id) ==
    /\ resp' = LET got == restore(kv, lk, id) IN
               IF ~LockFree(lk, id)
               THEN Resp("get", id, "", "LockError", <<>>)
               ELSE IF got.err = "ok"
               THEN Resp("get", id, "", "ok", got.session.users)
               ELSE Resp("get", id, "", got.err, <<>>)
    /\ UNCHANGED <<kv, lk, pc, sid, user, hand, session, out, held, acked>>

\* get(): restore and answer the session id and users
Get(id) ==
    /\ resp' = LET got == restore(kv, lk, id) IN
               IF got.err = "ok"
               THEN Resp("get", id, "", "ok", got.session.users)
               ELSE Resp("get", id, "", got.err, <<>>)
    /\ UNCHANGED <<kv, lk, pc, sid, user, hand, session, out, held, acked>>

\* session_result() deleting the record once it has answered a judgment.
SessionResultConsumes(id) ==
    /\ resp' = LET got == restore(kv, lk, id) IN
               IF got.err = "ok"
               THEN LET res == result(got.session) IN
                    Resp("result", id, "", res.status, res.winners)
               ELSE Resp("result", id, "", got.err, <<>>)
    /\ kv' = IF id \in DOMAIN kv /\ result(kv[id].val).status /= "SessionNotClosedError"
             THEN [k \in DOMAIN kv \ {id} |-> kv[k]]
             ELSE kv
    /\ UNCHANGED <<lk, pc, sid, user, hand, session, out, held, acked>>

\* session_result(): restore, result(), answer status and winners
SessionResult(id) ==
    /\ resp' = LET got == restore(kv, lk, id) IN
               IF got.err = "ok"
               THEN LET res == result(got.session) IN
                    Resp("result", id, "", res.status, res.winners)
               ELSE Resp("result", id, "", got.err, <<>>)
    /\ UNCHANGED <<kv, lk, pc, sid, user, hand, session, out, held, acked>>

Min(a, b) == IF a < b THEN a ELSE b

\* Locks set without a timeout: the passing of time drops no lock key.
TickKeepsLocks ==
    /\ kv' = Age(kv, TickSeconds)
    /\ lk' = lk
    /\ held' = [r \in Requests |->
                  IF pc[r] = "idle" THEN 0
                  ELSE Min(held[r] + TickSeconds, lock_timeout)]
    /\ acked' = [s \in SessionIds |->
                  IF s \in DOMAIN Age(kv, TickSeconds) THEN acked[s] ELSE {}]
    /\ resp' = NoResp
    /\ UNCHANGED <<pc, sid, user, hand, session, out>>

\* TickSeconds pass: redis drops the keys whose time to live ran out.
Tick ==
    /\ kv' = Age(kv, TickSeconds)
    /\ lk' = Age(lk, TickSeconds)
    /\ held' = [r \in Requests |->
                  IF pc[r] = "idle" THEN 0
                  ELSE Min(held[r] + TickSeconds, lock_timeout)]
    /\ acked' = [s \in SessionIds |->
                  IF s \in DOMAIN Age(kv, TickSeconds) THEN acked[s] ELSE {}]
    /\ resp' = NoResp
    /\ UNCHANGED <<pc, sid, user, hand, session, out>>

Next ==
    \/ \E users \in StartLists, id \in SessionIds : Start(users, id)
    \/ \E r \in Requests, id \in SessionIds, u \in Users, h \in HandTexts :
          ChoiceLock(r, id, u, h)
    \/ \E r \in LockNameRequests, id \in LockNames, u \in LockNameUsers,
          h \in LockNameHands : ChoiceLock(r, id, u, h)
    \/ \E r \in Requests : ChoiceRestoreChoose(r)
    \/ \E r \in Requests : ChoiceStore(r)
    \/ \E r \in Requests : ChoiceRelease(r)
    \/ \E id \in RequestIds : Get(id)
    \/ \E id \in SessionIds : SessionResult(id)
    \/ Tick

Spec == Init /\ [][Next]_vars

----------------------------------------------------------------------------
(* Progress of a retrying client. Holder is a request that may stop at any  *)
(* point of choice_hand, for good (a crashed or stalled worker): no         *)
(* fairness is stated for its steps. Retrier is a client that sends a       *)
(* parseable choice again each time it has been answered: its handler runs  *)
(* to the end (weak fairness of each step) and it sends again for each user *)
(* (strong fairness of the attempt, whichever way the attempt is answered). *)
(* Time passes (weak fairness of Tick).                                     *)

Holder == "r1"

Retrier == "r2"

RetryUsers == {"a", "b"}

RetryHands == { <<80, 65, 80, 69, 82>> }

Attempt(u) ==
    \E id \in SessionIds, h \in RetryHands : ChoiceLock(Retrier, id, u, h)

NextLive ==
    \/ \E users \in UserLists, id \in SessionIds : Start(users, id)
    \/ \E id \in SessionIds, u \in RetryUsers, h \in RetryHands :
          ChoiceLock(Holder, id, u, h)
    \/ \E u \in RetryUsers : Attempt(u)
    \/ \E r \in Requests : ChoiceRestoreChoose(r)
    \/ \E r \in Requests : ChoiceStore(r)
    \/ \E r \in Requests : ChoiceRelease(r)
    \/ Tick

Fairness ==
    /\ WF_vars(Tick)
    /\ WF_vars(ChoiceRestoreChoose(Retrier))
    /\ WF_vars(ChoiceStore(Retrier))
    /\ WF_vars(ChoiceRelease(Retrier))
    /\ \A u \in RetryUsers : SF_vars(Attempt(u))

SpecLive == Init /\ [][NextLive]_vars /\ Fairness

----------------------------------------------------------------------------
(* The judgment applied to every closed session: the store holds one closed *)
(* session (every participant has chosen, in any order, any hand) and       *)
(* session_result reads it.                                                 *)

JudgeLists == {<<"a", "b">>, <<"a", "b", "c">>, <<"a", "a">>, <<"a", "b", "a">>}

\* The choices of a closed session: one Choice for each distinct participant,
\* in any order of insertion.
ChoiceSeqs(users) ==
    LET n == Cardinality(SeqRange(users)) IN
    {cs \in [1..n -> [user : SeqRange(users), hand : Hands]] :
        \A i, j \in 1..n : cs[i].user = cs[j].user => i = j}

ClosedSessions ==
    UNION {{[session_id |-> id, users |-> ul, choices |-> cs] :
               id \in SessionIds, cs \in ChoiceSeqs(ul)} : ul \in JudgeLists}

InitJudge ==
    /\ \E s \in ClosedSessions : kv = store(<<>>, s)
    /\ lk = <<>>
    /\ pc = [r \in Requests |-> "idle"]
    /\ sid = [r \in Requests |-> ""]
    /\ user = [r \in Requests |-> ""]
    /\ hand = [r \in Requests |-> <<>>]
    /\ session = [r \in Requests |-> NoSession]
    /\ out = [r \in Requests |-> ""]
    /\ held = [r \in Requests |-> 0]
    /\ resp = NoResp
    /\ acked = [s \in SessionIds |-> {}]

NextJudge == \E id \in SessionIds : SessionResult(id)

SpecJudge == InitJudge /\ [][NextJudge]_vars

----------------------------------------------------------------------------
(* Properties *)

\* A session record is stored under the id.
Live(keys, id) == id \in DOMAIN keys

Closed(s) == SeqRange(s.users) = ChoiceKeys(s)

Throwers(s, h) ==
    {u \in ChoiceKeys(s) : \E i \in DOMAIN s.choices :
        s.choices[i].user = u /\ s.choices[i].hand = h}

IsListOf(seq, set) == SeqRange(seq) = set /\ Len(seq) = Cardinality(set)

InCriticalSection(r) == pc[r] = "store"

\* C1: every choice_hand that returned the session id has its choice in the
\* stored record for as long as that record exists (no lost update).
NoLostUpdate ==
    \A id \in DOMAIN kv : acked[id] \subseteq ChoiceKeys(kv[id].val)

\* C2 as stated: at most one request per session id is between its restore
\* and its store, whatever the time a holder stalls.
MutualExclusion ==
    \A r1, r2 \in Requests :
        (r1 /= r2 /\ InCriticalSection(r1) /\ InCriticalSection(r2))
            => sid[r1] /= sid[r2]

\* C2 amended: two requests of one session id are between restore and store
\* together only when one of them has held its lock for lock_timeout or longer.
MutualExclusionWithinTimeout ==
    \A r1, r2 \in Requests :
        (r1 /= r2 /\ InCriticalSection(r1) /\ InCriticalSection(r2)
               /\ sid[r1] = sid[r2])
            => (held[r1] >= lock_timeout \/ held[r2] >= lock_timeout)

\* A request is inside its critical section, its lock still live, and another
\* request on the same session has just been turned away.
MutualExclusionWitness ==
    \E r \in Requests :
        /\ InCriticalSection(r) /\ held[r] < lock_timeout
        /\ resp.op = "choice" /\ resp.out = "LockError" /\ resp.sid = sid[r]

\* C3: a choice_hand arriving while the session's lock is held returns at once
\* with the classified CannotStartTransactionError, touching nothing.
ContentionIsClassified ==
    [][\A id \in SessionIds :
          (resp'.op = "choice" /\ resp'.sid = id /\ pc' = pc /\ ~LockFree(lk, id))
              => (resp'.out = "CannotStartTransactionError"
                    /\ kv' = kv /\ lk' = lk /\ session' = session)]_vars

\* C4: a request that has finished, by whichever exit, holds no lock.
LockReleasedOnExit ==
    \A r \in Requests : pc[r] = "idle" => \A id \in SessionIds : ~Owns(lk, id, r)

\* A request that acquired the lock has just ended with an exception of
\* choose, and the lock of its session is free again.
LockReleasedWitness ==
    /\ resp.op = "choice" /\ resp.out = "AlreadyChosenError"
    /\ LockFree(lk, resp.sid)

\* C5: a create for an id that has a record leaves the record's content as it was.
CreateNeverOverwrites ==
    [][resp'.op = "start"
          => \A id \in DOMAIN kv :
                id \in DOMAIN kv' /\ kv'[id].val = kv[id].val]_vars

\* start has just returned an id whose record already held a choice, and
\* the record still holds it.
CreateCollisionWitness ==
    /\ resp.op = "start" /\ resp.out = "session start"
    /\ Live(kv, resp.sid) /\ kv[resp.sid].val.choices /= <<>>

\* C6: an id that is unreadable (never created, or expired) stays unreadable
\* until a session is created under it; no request in flight makes it readable.
ExpiredStaysUnreadable ==
    [][\A id \in SessionIds :
          (~Live(kv, id) /\ Live(kv', id)) => resp'.op = "start"]_vars

\* C7: a participant's recorded choice stays the single entry for that
\* participant and keeps its hand while the record exists, and a request of a
\* participant with a recorded choice never gets to store.
ChooseIdempotentRejecting ==
    [][/\ \A id \in DOMAIN kv :
            id \in DOMAIN kv' =>
               \A i \in DOMAIN kv[id].val.choices :
                  /\ Cardinality({j \in DOMAIN kv'[id].val.choices :
                        kv'[id].val.choices[j].user = kv[id].val.choices[i].user}) = 1
                  /\ \E j \in DOMAIN kv'[id].val.choices :
                        kv'[id].val.choices[j] = kv[id].val.choices[i]
       /\ \A r \in Requests :
            (pc[r] = "restore" /\ pc'[r] = "store")
               => user[r] \notin ChoiceKeys(kv[sid[r]].val)]_vars

WellFormed(s, id) ==
    /\ s.session_id = id
    /\ ChoiceKeys(s) \subseteq SeqRange(s.users)
    /\ s.users \in UserLists

\* C8: every stored session and every session a request works on has only
\* participants of its users list among its choices and carries the id it is
\* stored under; a request that chose successfully is a member; choose leaves
\* the id and the users list of the restored session as they were, and store
\* writes that session under that id.
SessionInvariant ==
    /\ [](/\ \A id \in DOMAIN kv : WellFormed(kv[id].val, id)
          /\ \A r \in Requests :
                pc[r] = "store" =>
                   /\ WellFormed(session[r], sid[r])
                   /\ user[r] \in SeqRange(session[r].users))
    /\ [][\A r \in Requests :
            /\ (pc[r] = "restore" /\ pc'[r] = "store") =>
                  /\ session'[r].session_id = kv[sid[r]].val.session_id
                  /\ session'[r].users = kv[sid[r]].val.users
            /\ (pc[r] = "store" /\ pc'[r] = "release") =>
                  /\ kv'[sid[r]].val.session_id = session[r].session_id
                  /\ kv'[sid[r]].val.users = session[r].users]_vars

\* A request of a non-member has just been answered NotInSessionError on a
\* session that holds a choice.
NotInSessionWitness ==
    /\ resp.op = "choice" /\ resp.out = "NotInSessionError"
    /\ Live(kv, resp.sid) /\ kv[resp.sid].val.choices /= <<>>

\* C9: session_result on a live session whose choosers are not all of its
\* participants answers SessionNotClosedError, with no status and no winners.
ResultNeedsClosedSession ==
    (resp.op = "result" /\ Live(kv, resp.sid)
        /\ ChoiceKeys(kv[resp.sid].val) /= SeqRange(kv[resp.sid].val.users))
      => (resp.out = "SessionNotClosedError" /\ resp.winners = <<>>)

\* session_result was answered SessionNotClosedError with one of two
\* participants having chosen.
NotClosedWitness ==
    /\ resp.op = "result" /\ resp.out = "SessionNotClosedError"
    /\ Live(kv, resp.sid)
    /\ Cardinality(ChoiceKeys(kv[resp.sid].val)) = 1
    /\ Cardinality(SeqRange(kv[resp.sid].val.users)) = 2

\* C10: the judgment table: Draw without winners when one hand or all three
\* are present, else the win of the stronger of the two hands present, the
\* winners being exactly its throwers.
JudgmentTable ==
    (resp.op = "result" /\ Live(kv, resp.sid) /\ Closed(kv[resp.sid].val)) =>
        LET s == kv[resp.sid].val
            present == {h \in Hands : Throwers(s, h) /= {}}
        IN  /\ (present = Hands \/ Cardinality(present) = 1)
                  => (resp.out = "Draw" /\ resp.winners = <<>>)
            /\ present = {"Rock", "Scissors"}
                  => (resp.out = "RockWin"
                        /\ IsListOf(resp.winners, Throwers(s, "Rock")))
            /\ present = {"Scissors", "Paper"}
                  => (resp.out = "ScissorsWin"
                        /\ IsListOf(resp.winners, Throwers(s, "Scissors")))
            /\ present = {"Paper", "Rock"}
                  => (resp.out = "PaperWin"
                        /\ IsListOf(resp.winners, Throwers(s, "Paper")))

\* Two of three participants threw Paper against one Rock and won.
JudgmentWitness ==
    /\ resp.op = "result" /\ resp.out = "PaperWin"
    /\ Len(resp.winners) = 2
    /\ Live(kv, resp.sid) /\ Len(kv[resp.sid].val.users) = 3

Statuses == {"Draw", "RockWin", "ScissorsWin", "PaperWin"}

ChooseErrors ==
    {"SessionNotFoundError", "UndefinedEnumError", "NotInSessionError",
     "AlreadyChosenError"}

Unparseable(text) ==
    text \notin { <<32, 82, 111, 99, 107, 13>>, <<80, 65, 80, 69, 82>> }

\* C11: once all participants of a session have chosen, session_result gives
\* the same status and winners for as long as the record of that session
\* (the record with its users list) exists.
ResultStable ==
    [][\A id \in DOMAIN kv :
          (id \in DOMAIN kv' /\ Closed(kv[id].val)
                /\ kv'[id].val.users = kv[id].val.users)
             => result(kv'[id].val) = result(kv[id].val)]_vars

\* C12: start with fewer than 2 users answers no session id and writes
\* nothing; with 2 or more users and a freshly minted id it adds exactly one
\* record, holding these users and no choice; no record has fewer than 2 users.
StartNeedsTwoUsers ==
    /\ [](\A id \in DOMAIN kv : Len(kv[id].val.users) >= 2)
    /\ [][resp'.op = "start" =>
            /\ resp'.sid = "" => kv' = kv
            /\ (resp'.sid /= "" /\ resp'.sid \notin DOMAIN kv) =>
                  /\ DOMAIN kv' = DOMAIN kv \cup {resp'.sid}
                  /\ \A id \in DOMAIN kv : kv'[id] = kv[id]
                  /\ kv'[resp'.sid].val.session_id = resp'.sid
                  /\ kv'[resp'.sid].val.users \in UserLists
                  /\ kv'[resp'.sid].val.choices = <<>>]_vars

\* start has just refused a users list of one entry; no record exists.
StartRefusedWitness ==
    resp.op = "start" /\ resp.sid = "" /\ kv = <<>>

\* C13: every successful write, the create of start and the store of
\* choice_hand, leaves the record with the full session lifetime, whatever
\* was left of it before; a record with more than a clock step left outlives it.
SlidingExpiry ==
    [][/\ \A r \in Requests :
            (pc[r] = "store" /\ pc'[r] = "release") =>
               (Live(kv', sid[r]) /\ kv'[sid[r]].ttl = session_lifetime)
       /\ \A id \in SessionIds :
            (resp'.op = "start" /\ ~Live(kv, id) /\ Live(kv', id)) =>
               kv'[id].ttl = session_lifetime
       /\ \A id \in DOMAIN kv :
            (kv[id].ttl > TickSeconds \/ kv' = kv) => Live(kv', id)]_vars

\* A store has just written a second choice: the record, created at least
\* one store earlier, has the full lifetime again.
SlidingExpiryWitness ==
    \E r \in Requests :
        /\ pc[r] = "release" /\ out[r] = "ok" /\ Live(kv, sid[r])
        /\ Len(kv[sid[r]].val.choices) = 2
        /\ kv[sid[r]].ttl = session_lifetime

\* C14: get and session_result on a live session are never turned away for
\* the lock nor as not found, whoever holds the lock, and answer from one
\* complete stored record.
ReadsBypassLock ==
    (resp.op \in {"get", "result"} /\ Live(kv, resp.sid)) =>
        /\ resp.out \notin {"LockError", "SessionNotFoundError"}
        /\ resp.op = "get" =>
              (resp.out = "ok" /\ resp.winners = kv[resp.sid].val.users)
        /\ resp.op = "result" =>
              IF Closed(kv[resp.sid].val)
              THEN resp.out \in Statuses
              ELSE resp.out = "SessionNotClosedError"

\* get has answered while a choice_hand holds the lock between its restore
\* and its store.
ReadUnderLockWitness ==
    /\ resp.op = "get" /\ resp.out = "ok"
    /\ \E r \in Requests :
          pc[r] = "store" /\ sid[r] = resp.sid /\ Owns(lk, resp.sid, r)

\* C15: get and session_result leave the records, their remaining lifetime
\* and the locks as they were.
ReadsChangeNothing ==
    [][resp'.op \in {"get", "result"} => (kv' = kv /\ lk' = lk)]_vars

\* session_result has answered a judgment; the record is still there with
\* less than the full lifetime left.
ResultKeepsRecordWitness ==
    /\ resp.op = "result" /\ resp.out \in Statuses
    /\ Live(kv, resp.sid) /\ kv[resp.sid].ttl < session_lifetime

\* C16: a store on a session whose record expired since the restore raises
\* SessionAlreadyExistError and writes nothing.
StoreAfterExpiryFails ==
    [][\A r \in Requests :
          (pc[r] = "store" /\ pc'[r] /= "store" /\ ~Live(kv, sid[r])) =>
             (~Live(kv', sid[r]) /\ out'[r] = "SessionAlreadyExistError")]_vars

\* C18: the steps of a choice_hand that fails on the lock, the restore, the
\* hand or choose write nothing: the records and their remaining lifetime
\* stay as they were and no record appears.
FailedChoiceWritesNothing ==
    [][/\ (resp'.op = "choice" /\ resp'.out \in ChooseErrors \cup {"LockError"})
             => kv' = kv
       /\ \A r \in Requests :
            /\ (pc[r] = "restore" /\ pc'[r] = "release") =>
                  (kv' = kv /\ out'[r] \in ChooseErrors \cup {"UnpicklingError"})
            /\ (pc[r] = "restore" /\ pc'[r] = "store") => kv' = kv
            /\ (pc[r] = "idle" /\ pc'[r] = "restore") => kv' = kv
            /\ (pc[r] = "store" /\ pc'[r] = "release") => out'[r] = "ok"]_vars

\* A choice_hand has been answered AlreadyChosenError; the record has less
\* than the full lifetime left.
FailedChoiceWitness ==
    /\ resp.op = "choice" /\ resp.out = "AlreadyChosenError"
    /\ Live(kv, resp.sid) /\ kv[resp.sid].ttl < session_lifetime

\* C19: once every participant has a recorded choice, the stored choices
\* never change again and the expiry is never refreshed again.
ClosedIsFrozen ==
    [][\A id \in DOMAIN kv :
          (id \in DOMAIN kv' /\ Closed(kv[id].val)) =>
             (kv'[id].val = kv[id].val /\ kv'[id].ttl <= kv[id].ttl)]_vars

\* C20: choice_hand checks in the order lock, restore, hand, choose: a held
\* lock answers LockError whatever the session and the hand; an id under
\* which no session is stored answers SessionNotFoundError whatever the hand;
\* an unparseable hand answers UndefinedEnumError whoever the user.
ErrorPrecedence ==
    [][/\ \A id \in SessionIds :
            (resp'.op = "choice" /\ resp'.sid = id /\ pc' = pc) =>
               (~LockFree(lk, id) /\ resp'.out = "LockError")
       /\ \A r \in Requests :
            (pc[r] = "restore" /\ pc'[r] /= "restore") =>
               IF ~Live(kv, sid[r])
               THEN out'[r] = "SessionNotFoundError"
               ELSE IF Unparseable(hand[r])
               THEN out'[r] = "UndefinedEnumError"
               ELSE IF user[r] \in ChoiceKeys(kv[sid[r]].val)
               THEN out'[r] = "AlreadyChosenError"
               ELSE IF user[r] \notin SeqRange(kv[sid[r]].val.users)
               THEN out'[r] = "NotInSessionError"
               ELSE pc'[r] = "store"]_vars

\* The choice of user u can be sent validly: the session is live, u is one
\* of its users and has no choice stored.
ValidChoice(id, u) ==
    /\ Live(kv, id)
    /\ u \in SeqRange(kv[id].val.users)
    /\ u \notin ChoiceKeys(kv[id].val)

Stored(id, u) == Live(kv, id) /\ u \in ChoiceKeys(kv[id].val)

Acquired(r, id, u) == pc[r] = "restore" /\ sid[r] = id /\ user[r] = u

HolderStopped == <>[](pc[Holder] /= "idle")

\* C17: a held lock becomes free again whether or not its holder ever takes
\* another step; and when the holder has stopped for good, a client that keeps
\* sending a choice is not answered LockError forever: it acquires the lock,
\* and an acquisition that finds the session live and the choice valid goes
\* on to store the choice.
LockAutoRelease ==
    /\ \A id \in SessionIds : ~LockFree(lk, id) ~> LockFree(lk, id)
    /\ HolderStopped =>
          \A id \in SessionIds, u \in RetryUsers :
              ~LockFree(lk, id) ~> Acquired(Retrier, id, u)
    /\ [][(pc[Retrier] = "restore" /\ pc'[Retrier] /= "restore"
             /\ ValidChoice(sid[Retrier], user[Retrier]))
           => pc'[Retrier] = "store"]_vars
    /\ \A id \in SessionIds, u \in RetryUsers :
          (pc[Retrier] = "store" /\ sid[Retrier] = id /\ user[Retrier] = u)
             ~> Stored(id, u)

\* The holder has stalled beyond the lock timeout before its store, and the
\* retrying client owns the lock of the same, live, session and is about to
\* store its choice.
LockAutoReleaseWitness ==
    /\ pc[Holder] \in {"restore", "store"}
    /\ held[Holder] >= lock_timeout
    /\ pc[Retrier] = "store"
    /\ sid[Retrier] = sid[Holder]
    /\ Owns(lk, sid[Retrier], Retrier)
    /\ Live(kv, sid[Retrier])

====
